---- MODULE Spec2Model ----
(***************************************************************************)
(* A model of tinywebp's App component (src/src/App.tsx): the batch        *)
(* conversion pipeline (processFiles / convertToWebP), the result list     *)
(* (convertedImages, handleRemove, totalSavings, calculateSavings) and the *)
(* exports (handleDownload, handleDownloadAll).                            *)
(*                                                                         *)
(* The browser runs everything on one event loop.  One action of the model *)
(* is one task of that loop together with the microtasks it triggers: the  *)
(* promise reactions of a resolve() run before the next event is           *)
(* dispatched, so the continuation of processFiles after `await            *)
(* Promise.all(...)` is part of the step that resolves the last promise.   *)
(* Strings that the code takes apart (file names) are sequences of         *)
(* one-character strings; array indices are the code's 0-based indices.    *)
(***************************************************************************)
EXTENDS Integers, Sequences, FiniteSets, TLC

\* ------------------------------------------------------------------ bounds

\* files handed to processFiles over a run, all calls together
MaxFiles == 2
\* longest result list the list operations are tried on from the start
MaxLen == 3
\* largest size tried as an argument of calculateSavings
MaxCalcSize == 12
\* longest file name the name derivation is tried on
MaxNameLen == 5
\* handleDownload calls per run
MaxDownloads == 3

\* ------------------------------------------------------------------ inputs

\* The files a user can select or drop: two images and one document.
FileA == [name |-> <<"a", ".", "j">>, type |-> "image/jpeg", size |-> 2]
FileB == [name |-> <<"b", ".", "c", ".", "p">>, type |-> "image/png", size |-> 2]
FileP == [name |-> <<"d", ".", "f">>, type |-> "application/pdf", size |-> 2]
Files == {FileA, FileB, FileP}

\* The byte lengths canvas.toBlob may produce for an image (smaller or larger
\* than the input).
BlobSizes == {1, 3}

\* The non-empty file lists a change or drop event can carry.
FileLists == UNION {[1..n -> Files] : n \in 1..MaxFiles}

\* ------------------------------------------------------------------ state

VARIABLES
  convertedImages,  \* useState<ConvertedImage[]>: the result list
  isConverting,     \* useState(false)
  isZipping,        \* useState(false)
  submitted,        \* files handed to processFiles so far (bounds the run)
  imageFiles,       \* per processFiles call: the filtered files, in order
  taskPc,           \* per call and file: where its convertToWebP promise is
  values,           \* per call: the values array of its Promise.all
  revoked,          \* per call and file: revokeObjectURL calls on its imageUrl
  batchPc,          \* per call: "await" at Promise.all, or "done"
  lastResolved,     \* per call: the index of the promise resolved latest (0: none)
  lastRemove,       \* the latest handleRemove call, where a run records it
  zipPc,            \* handleDownloadAll: "idle" or "generating"
  zipFiles,         \* the JSZip object's files: entry name -> blob
  zipImages,        \* the convertedImages the running handleDownloadAll closed over
  zipOutcome,       \* how the latest finished handleDownloadAll ended
  zipUrl,           \* the object URL of the latest handleDownloadAll call
  zipPromise,       \* the promise the latest handleDownloadAll call returned
  lastDownload,     \* the latest handleDownload call, where a run makes any
  calcArgs,         \* the arguments of a calculateSavings call
  calcResult,       \* the string it returned
  nameArg,          \* a file name given to convertToWebP's name derivation
  nameResult        \* the names derived from it

vars == <<convertedImages, isConverting, isZipping, submitted, imageFiles, taskPc,
          values, revoked, batchPc, lastResolved, lastRemove, zipPc, zipFiles,
          zipImages, zipOutcome, zipUrl, zipPromise, lastDownload, calcArgs,
          calcResult, nameArg, nameResult>>

convVars == <<submitted, imageFiles, taskPc, values, revoked, batchPc, lastResolved>>
zipVars == <<zipPc, zipFiles, zipImages, zipOutcome, zipUrl, zipPromise>>
calcVars == <<calcArgs, calcResult>>
nameVars == <<nameArg, nameResult>>

\* A slot of Promise.all's values array that no promise has filled yet.
Pending == [pending |-> TRUE]
\* lastRemove before any recorded handleRemove call
NoRemove == [called |-> FALSE, index |-> 0, length |-> 0, prevIndex |-> 0,
             prevLength |-> 0]
\* calcResult before any calculateSavings call
NoResult == "(none)"
\* lastDownload before any handleDownload call
NoDownload == [calls |-> 0, clicks |-> 0, name |-> <<>>, blob |-> <<0, 0>>,
               prevBlob |-> <<0, 0>>, threw |-> FALSE, url |-> "none"]
\* nameResult before the names are derived
NoNames == [derived |-> FALSE, originalName |-> <<>>, download |-> <<>>,
            entry |-> <<>>]

\* ------------------------------------------------------- convertToWebP

\* file.name.replace(/\.[^/.]+$/, ''): the regular expression matches at p when
\* name[p] is a dot followed, up to the end, by one or more characters that are
\* neither a slash nor a dot.
ExtensionMatchesAt(name, p) ==
  /\ name[p] = "."
  /\ p < Len(name)
  /\ \A k \in (p + 1)..Len(name) : name[k] \notin {"/", "."}

\* Mutation of StripExtension: the name is cut at its first dot.
StripAtFirstDot(name) ==
  LET dots == {p \in 1..Len(name) : name[p] = "."}
  IN  IF dots = {} THEN name
      ELSE SubSeq(name, 1, (CHOOSE q \in dots : \A r \in dots : q <= r) - 1)

StripExtension(name) ==
  LET ms == {p \in 1..Len(name) : ExtensionMatchesAt(name, p)}
  IN  IF ms = {} THEN name
      ELSE LET p == CHOOSE q \in ms : \A r \in ms : q <= r
           IN  SubSeq(name, 1, p - 1)

\* The blob canvas.toBlob hands to its callback: an object (identified by the
\* call and file it was made for) with a byte length.
Blob(b, i, size) == [id |-> <<b, i>>, size |-> size]

\* The object resolve() is called with (lines 49-54).
ConvertedImage(file, blob) ==
  [originalName |-> StripExtension(file.name),
   webpBlob |-> blob,
   originalSize |-> file.size,
   convertedSize |-> blob.size]

\* ------------------------------------------------------- processFiles

AcceptedTypes == {"image/jpeg", "image/png", "image/gif", "image/tiff", "image/bmp"}

\* Mutation of FilterAccepted: every file is kept.
FilterNothing(files) == files

\* files.filter(file => [...].includes(file.type))
RECURSIVE FilterAccepted(_)
FilterAccepted(files) ==
  IF files = <<>> THEN <<>>
  ELSE (IF Head(files).type \in AcceptedTypes THEN <<Head(files)>> ELSE <<>>)
       \o FilterAccepted(Tail(files))

\* Mutation of PromiseAllResolveElement: the value goes to the first free slot,
\* so the array fills in completion order.
ResolveElementInCompletionOrder(vals, index, value) ==
  LET free == {k \in 1..Len(vals) : vals[k] = Pending}
  IN  [vals EXCEPT ![CHOOSE k \in free : \A j \in free : k <= j] = value]

\* Promise.all's resolve-element function: the value goes to the slot of the
\* promise's index.
PromiseAllResolveElement(vals, index, value) ==
  [vals EXCEPT ![index] = value]

\* Promise.all is fulfilled when every slot is filled.
PromiseAllFulfilled(vals) == \A k \in 1..Len(vals) : vals[k] # Pending

\* Mutation of AppendBatch: a result whose originalName the list already holds
\* is dropped.
RECURSIVE AppendBatchDedup(_, _)
AppendBatchDedup(prev, converted) ==
  IF converted = <<>> THEN prev
  ELSE LET c == Head(converted)
           dup == \E k \in 1..Len(prev) : prev[k].originalName = c.originalName
       IN  AppendBatchDedup(IF dup THEN prev ELSE Append(prev, c), Tail(converted))

\* Mutation of AppendBatch: the batch is put where its call's place among the
\* processFiles calls puts it, before the results of later calls.
AppendBatchBySubmission(prev, converted) ==
  IF converted = <<>> THEN prev
  ELSE LET b == converted[1].webpBlob.id[1]
       IN  SelectSeq(prev, LAMBDA im : im.webpBlob.id[1] < b)
             \o converted
             \o SelectSeq(prev, LAMBDA im : im.webpBlob.id[1] > b)

\* Mutation of AppendBatch: the batch is appended to the list the call's
\* render saw (empty, before any result) and not to prev.
AppendBatchToStale(prev, converted) == converted

\* setConvertedImages(prev => [...prev, ...converted])
AppendBatch(prev, converted) == prev \o converted

\* Lines 88-89, run once Promise.all is fulfilled.
ProcessFilesContinue(b, vals, pcs) ==
  /\ convertedImages' = AppendBatch(convertedImages, vals)
  /\ isConverting' = FALSE
  /\ batchPc' = [pcs EXCEPT ![b] = "done"]

\* processFiles(files), up to the await: the flag is set, the files are
\* filtered and every accepted file gets its convertToWebP call (an object URL
\* is created and set as the image's src).  Promise.all of no promises is
\* fulfilled at once, so the call then runs to its end.
processFiles(files) ==
  LET accepted == FilterAccepted(files)
      b == Len(imageFiles) + 1
      vals == [k \in 1..Len(accepted) |-> Pending]
  IN  /\ submitted + Len(files) <= MaxFiles
      /\ submitted' = submitted + Len(files)
      /\ imageFiles' = Append(imageFiles, accepted)
      /\ taskPc' = Append(taskPc, [k \in 1..Len(accepted) |-> "loading"])
      /\ values' = Append(values, vals)
      /\ revoked' = Append(revoked, [k \in 1..Len(accepted) |-> 0])
      /\ lastResolved' = Append(lastResolved, 0)
      /\ IF PromiseAllFulfilled(vals)
         THEN ProcessFilesContinue(b, vals, Append(batchPc, "await"))
         ELSE /\ isConverting' = TRUE
              /\ batchPc' = Append(batchPc, "await")
              /\ UNCHANGED convertedImages
      /\ UNCHANGED <<isZipping, lastRemove, zipVars, calcVars, lastDownload,
                     nameVars>>

\* The convertToWebP calls made so far: <<call, index of the file>>.
Tasks == {t \in (1..Len(imageFiles)) \X (1..MaxFiles) : t[2] <= Len(imageFiles[t[1]])}

\* img.onload (lines 38-61): the image decoded; the canvas is drawn and toBlob
\* is started.
ImgOnload(b, i) ==
  /\ taskPc[b][i] = "loading"
  /\ taskPc' = [taskPc EXCEPT ![b][i] = "decoded"]
  /\ UNCHANGED <<convertedImages, isConverting, isZipping, submitted, imageFiles,
                 values, revoked, batchPc, lastResolved, lastRemove, zipVars,
                 calcVars, lastDownload, nameVars>>

\* The image failed to decode: the browser fires the error event, for which
\* convertToWebP registers no handler.  Nothing of the task runs again.
ImgError(b, i) ==
  /\ taskPc[b][i] = "loading"
  /\ taskPc' = [taskPc EXCEPT ![b][i] = "loadError"]
  /\ UNCHANGED <<convertedImages, isConverting, isZipping, submitted, imageFiles,
                 values, revoked, batchPc, lastResolved, lastRemove, zipVars,
                 calcVars, lastDownload, nameVars>>

\* The toBlob callback with a blob (lines 47-57): the promise is resolved and
\* the object URL revoked.  When that fulfils the call's Promise.all,
\* processFiles continues.
ToBlobCallback(b, i, size) ==
  LET value == ConvertedImage(imageFiles[b][i], Blob(b, i, size))
      vals == PromiseAllResolveElement(values[b], i, value)
  IN  /\ taskPc[b][i] = "decoded"
      /\ taskPc' = [taskPc EXCEPT ![b][i] = "resolved"]
      /\ values' = [values EXCEPT ![b] = vals]
      /\ revoked' = [revoked EXCEPT ![b][i] = @ + 1]
      /\ lastResolved' = [lastResolved EXCEPT ![b] = i]
      /\ IF PromiseAllFulfilled(vals)
         THEN ProcessFilesContinue(b, vals, batchPc)
         ELSE UNCHANGED <<convertedImages, isConverting, batchPc>>
      /\ UNCHANGED <<isZipping, submitted, imageFiles, lastRemove, zipVars,
                     calcVars, lastDownload, nameVars>>

\* The toBlob callback with null (lines 47-57): the encoding failed; resolve is
\* not called, the object URL is revoked.
ToBlobNull(b, i) ==
  /\ taskPc[b][i] = "decoded"
  /\ taskPc' = [taskPc EXCEPT ![b][i] = "noBlob"]
  /\ revoked' = [revoked EXCEPT ![b][i] = @ + 1]
  /\ UNCHANGED <<convertedImages, isConverting, isZipping, submitted, imageFiles,
                 values, batchPc, lastResolved, lastRemove, zipVars, calcVars,
                 lastDownload, nameVars>>

\* Any task event of convertToWebP call <<b, i>>.
TaskStep(b, i) ==
  /\ <<b, i>> \in Tasks
  /\ \/ ImgOnload(b, i)
     \/ ImgError(b, i)
     \/ \E size \in BlobSizes : ToBlobCallback(b, i, size)
     \/ ToBlobNull(b, i)

\* ------------------------------------------------------------ result list

\* prev.filter((_, i) => i !== index), from position k on (k is 1-based, the
\* callback's i is k - 1).
RECURSIVE FilterIndexFrom(_, _, _)
FilterIndexFrom(prev, index, k) ==
  IF k > Len(prev) THEN <<>>
  ELSE (IF k - 1 # index THEN <<prev[k]>> ELSE <<>>)
       \o FilterIndexFrom(prev, index, k + 1)

\* Mutation of RemoveAt: the callback compares a 1-based position.
RemoveAtOffByOne(prev, index) == FilterIndexFrom(prev, index + 1, 1)

\* Mutation of RemoveAt: a negative index counts from the end of the list, as
\* in prev.splice(index, 1).
RemoveAtFromEnd(prev, index) ==
  FilterIndexFrom(prev, IF index < 0 THEN Len(prev) + index ELSE index, 1)

RemoveAt(prev, index) == FilterIndexFrom(prev, index, 1)

\* Mutation of handleRemove: the entry of the removed result is taken out of
\* the archive as well.
handleRemoveFromArchive(index) ==
  LET gone == IF index \in 1..Len(convertedImages)
              THEN {convertedImages[index].originalName \o <<".", "w", "e", "b", "p">>}
              ELSE {}
  IN  /\ convertedImages' = RemoveAt(convertedImages, index)
      /\ zipFiles' = [n \in (DOMAIN zipFiles) \ gone |-> zipFiles[n]]
      /\ UNCHANGED <<isConverting, isZipping, convVars, zipPc, zipImages,
                     zipOutcome, zipUrl, zipPromise, calcVars, lastDownload,
                     nameVars>>

\* handleRemove(index); lastRemove is left to the specification.
handleRemove(index) ==
  /\ convertedImages' = RemoveAt(convertedImages, index)
  /\ UNCHANGED <<isConverting, isZipping, convVars, zipVars, calcVars,
                 lastDownload, nameVars>>

\* The indices handleRemove is called with: every index of the list, one below,
\* the length and one above it.
RemoveIndices == -1..(Len(convertedImages) + 1)

\* convertedImages.reduce((acc, img) => acc + (img.originalSize -
\* img.convertedSize), 0), from position k on with accumulator acc.
RECURSIVE ReduceSavings(_, _, _)
ReduceSavings(images, acc, k) ==
  IF k > Len(images) THEN acc
  ELSE ReduceSavings(images, acc + (images[k].originalSize - images[k].convertedSize),
                     k + 1)

\* Mutation of totalSavings: a negative total is shown as 0.
totalSavingsClamped ==
  LET total == ReduceSavings(convertedImages, 0, 1)
  IN  IF total < 0 THEN 0 ELSE total

\* const totalSavings, computed at every render from the current list.
totalSavings == ReduceSavings(convertedImages, 0, 1)

\* ------------------------------------------------------- calculateSavings

\* x.toFixed(1) for the finite number x = num / den (den > 0): the sign, then
\* the integer n of tenths closest to |x|, the larger one on a tie, written with
\* one digit after the point.  (The quotient is taken exactly; the code's
\* double arithmetic can differ from it in the last bit.)
ToFixed1(num, den) ==
  LET mag == IF num < 0 THEN -num ELSE num
      n == (2 * 10 * mag + den) \div (2 * den)
  IN  (IF num < 0 THEN "-" ELSE "") \o ToString(n \div 10) \o "." \o ToString(n % 10)

\* ((original - converted) / original * 100).toFixed(1) + "%".  A division by 0
\* is no error in JavaScript: 0 / 0 is NaN and x / 0 is an infinity, and toFixed
\* prints those by name.
calculateSavings(original, converted) ==
  LET diff == original - converted
      savings == IF original # 0 THEN ToFixed1(diff * 100, original)
                 ELSE IF diff = 0 THEN "NaN"
                 ELSE IF diff < 0 THEN "-Infinity"
                 ELSE "Infinity"
  IN  savings \o "%"

\* One call of calculateSavings, as the render of a list row makes it.
RenderSavings ==
  /\ calcResult = NoResult
  /\ calcResult' = calculateSavings(calcArgs[1], calcArgs[2])
  /\ UNCHANGED <<convertedImages, isConverting, isZipping, convVars, lastRemove,
                 zipVars, calcArgs, lastDownload, nameVars>>

\* --------------------------------------------------------- handleDownload

\* a.download = `${image.originalName}.webp`
DownloadName(image) == image.originalName \o <<".", "w", "e", "b", "p">>

\* The record of a handleDownload(image) call: the calls and the a.click()
\* calls so far, the name and the blob of the anchor, the blob of the call
\* before, and what became of the object URL the call created.  a.click()
\* throwing leaves the function at line 98, before revokeObjectURL (line 100).
RecordDownload(image, throws) ==
  [calls |-> lastDownload.calls + 1,
   clicks |-> lastDownload.clicks + 1,
   name |-> DownloadName(image),
   blob |-> image.webpBlob.id,
   prevBlob |-> lastDownload.blob,
   threw |-> throws,
   url |-> IF throws THEN "live" ELSE "revoked"]

\* Mutation of handleDownload: the downloaded result is taken off the list.
handleDownloadAndRemove(image, throws) ==
  /\ lastDownload.calls < MaxDownloads
  /\ lastDownload' = RecordDownload(image, throws)
  /\ convertedImages' = SelectSeq(convertedImages, LAMBDA im : im # image)
  /\ UNCHANGED <<isConverting, isZipping, convVars, lastRemove, zipVars,
                 calcVars, nameVars>>

\* handleDownload(image) (lines 92-101): it sets no state of the component.
handleDownload(image, throws) ==
  /\ lastDownload.calls < MaxDownloads
  /\ lastDownload' = RecordDownload(image, throws)
  /\ UNCHANGED <<convertedImages, isConverting, isZipping, convVars, lastRemove,
                 zipVars, calcVars, nameVars>>

\* The download button of a listed result (line 318).
ClickDownload ==
  \E k \in 1..Len(convertedImages), throws \in BOOLEAN :
    handleDownload(convertedImages[k], throws)

\* ------------------------------------------------------ handleDownloadAll

\* `${image.originalName}.webp`
WebpName(image) == image.originalName \o <<".", "w", "e", "b", "p">>

\* Mutation of ZipFile: an entry whose name the archive already holds is
\* skipped.
ZipFileKeepFirst(files, name, data) ==
  [n \in (DOMAIN files) \cup {name} |-> IF n \in DOMAIN files THEN files[n] ELSE data]

\* zip.file(name, data): JSZip keeps one entry per name, the one added last.
ZipFile(files, name, data) ==
  [n \in (DOMAIN files) \cup {name} |-> IF n = name THEN data ELSE files[n]]

\* convertedImages.forEach(image => zip.file(...)), from position k on.
RECURSIVE ZipForEach(_, _, _)
ZipForEach(files, images, k) ==
  IF k > Len(images) THEN files
  ELSE ZipForEach(ZipFile(files, WebpName(images[k]), images[k].webpBlob),
                  images, k + 1)

\* new JSZip()
EmptyZip == <<>>

\* handleDownloadAll(), up to `await zip.generateAsync`.  The button that calls
\* it is disabled while isZipping.
handleDownloadAll ==
  /\ ~isZipping
  /\ zipPc = "idle"
  /\ IF Len(convertedImages) = 0
     THEN UNCHANGED <<isZipping, zipVars>>
     ELSE /\ isZipping' = TRUE
          /\ zipPc' = "generating"
          /\ zipFiles' = ZipForEach(EmptyZip, convertedImages, 1)
          /\ zipImages' = convertedImages
          /\ zipUrl' = "none"
          /\ zipPromise' = "pending"
          /\ UNCHANGED zipOutcome
  /\ UNCHANGED <<convertedImages, isConverting, convVars, lastRemove, calcVars,
                 lastDownload, nameVars>>

\* generateAsync fulfilled: the download is triggered (lines 119-126), then the
\* finally block runs.
GenerateFulfilled ==
  /\ zipPc = "generating"
  /\ zipPc' = "idle"
  /\ zipOutcome' = "downloaded"
  /\ zipUrl' = "revoked"
  /\ zipPromise' = "fulfilled"
  /\ zipFiles' = EmptyZip
  /\ zipImages' = <<>>
  /\ isZipping' = FALSE
  /\ UNCHANGED <<convertedImages, isConverting, convVars, lastRemove, calcVars,
                 lastDownload, nameVars>>

\* generateAsync fulfilled and a.click() throws: the object URL was created
\* (line 119); the rest of the try block, the revocation included, is skipped,
\* the catch block logs the error, then the finally block runs.
GenerateFulfilledThrows ==
  /\ zipPc = "generating"
  /\ zipPc' = "idle"
  /\ zipOutcome' = "threw"
  /\ zipUrl' = "live"
  /\ zipPromise' = "fulfilled"
  /\ zipFiles' = EmptyZip
  /\ zipImages' = <<>>
  /\ isZipping' = FALSE
  /\ UNCHANGED <<convertedImages, isConverting, convVars, lastRemove, calcVars,
                 lastDownload, nameVars>>

\* Mutation of GenerateRejected: the finally block does not run.
GenerateRejectedNoFinally ==
  /\ zipPc = "generating"
  /\ zipPc' = "idle"
  /\ zipOutcome' = "failed"
  /\ zipUrl' = "none"
  /\ zipPromise' = "fulfilled"
  /\ zipFiles' = EmptyZip
  /\ zipImages' = <<>>
  /\ UNCHANGED <<convertedImages, isConverting, isZipping, convVars, lastRemove,
                 calcVars, lastDownload, nameVars>>

\* generateAsync rejected: the catch block logs the error, then the finally
\* block runs; the async function returns normally.
GenerateRejected ==
  /\ zipPc = "generating"
  /\ zipPc' = "idle"
  /\ zipOutcome' = "failed"
  /\ zipUrl' = "none"
  /\ zipPromise' = "fulfilled"
  /\ zipFiles' = EmptyZip
  /\ zipImages' = <<>>
  /\ isZipping' = FALSE
  /\ UNCHANGED <<convertedImages, isConverting, convVars, lastRemove, calcVars,
                 lastDownload, nameVars>>

\* ------------------------------------------------------------------ specs

Init ==
  /\ convertedImages = <<>>
  /\ isConverting = FALSE
  /\ isZipping = FALSE
  /\ submitted = 0
  /\ imageFiles = <<>>
  /\ taskPc = <<>>
  /\ values = <<>>
  /\ revoked = <<>>
  /\ batchPc = <<>>
  /\ lastResolved = <<>>
  /\ lastRemove = NoRemove
  /\ zipPc = "idle"
  /\ zipFiles = EmptyZip
  /\ zipImages = <<>>
  /\ zipOutcome = "none"
  /\ zipUrl = "none"
  /\ zipPromise = "none"
  /\ lastDownload = NoDownload
  /\ nameArg = <<>>
  /\ nameResult = NoNames
  /\ calcArgs = <<0, 0>>
  /\ calcResult = NoResult

\* The App: every handler and every event of a conversion or an export.
Next ==
  \/ \E files \in FileLists : processFiles(files)
  \/ \E t \in Tasks : ImgOnload(t[1], t[2])
  \/ \E t \in Tasks : ImgError(t[1], t[2])
  \/ \E t \in Tasks, size \in BlobSizes : ToBlobCallback(t[1], t[2], size)
  \/ \E t \in Tasks : ToBlobNull(t[1], t[2])
  \/ \E index \in RemoveIndices : handleRemove(index) /\ UNCHANGED lastRemove
  \/ handleDownloadAll
  \/ GenerateFulfilled
  \/ GenerateFulfilledThrows
  \/ GenerateRejected

Spec == Init /\ [][Next]_vars

\* The browser delivers the load or error event of every image whose src was
\* set, and calls every toBlob callback.
FairSpec ==
  Spec /\ \A t \in (1..MaxFiles) \X (1..MaxFiles) : WF_vars(TaskStep(t[1], t[2]))

\* The result lists the list operations start from: up to MaxLen results of
\* earlier conversions of the two images, in every order and size.
StoreImage(k, file, size) == ConvertedImage(file, Blob(0, k, size))

StoreLists ==
  UNION {{[k \in 1..n |-> StoreImage(k, c[k][1], c[k][2])] :
            c \in [1..n -> {FileA, FileB} \X BlobSizes]} : n \in 0..MaxLen}

InitStore ==
  /\ convertedImages \in StoreLists
  /\ isConverting = FALSE
  /\ isZipping = FALSE
  /\ submitted = 0
  /\ imageFiles = <<>>
  /\ taskPc = <<>>
  /\ values = <<>>
  /\ revoked = <<>>
  /\ batchPc = <<>>
  /\ lastResolved = <<>>
  /\ lastRemove = NoRemove
  /\ zipPc = "idle"
  /\ zipFiles = EmptyZip
  /\ zipImages = <<>>
  /\ zipOutcome = "none"
  /\ zipUrl = "none"
  /\ zipPromise = "none"
  /\ lastDownload = NoDownload
  /\ nameArg = <<>>
  /\ nameResult = NoNames
  /\ calcArgs = <<0, 0>>
  /\ calcResult = NoResult

\* The record of a handleRemove(index) call: its argument and the length of the
\* list it found, and the same of the recorded call before it.
RecordRemove(index) ==
  [called |-> TRUE, index |-> index, length |-> Len(convertedImages),
   prevIndex |-> lastRemove.index, prevLength |-> lastRemove.length]

\* The result list on its own: removals (each recorded in lastRemove) and
\* exports of a list that conversions have filled.
NextStore ==
  \/ \E index \in RemoveIndices :
       /\ handleRemove(index)
       /\ lastRemove' = RecordRemove(index)
  \/ handleDownloadAll
  \/ GenerateFulfilled
  \/ GenerateFulfilledThrows
  \/ GenerateRejected

SpecStore == InitStore /\ [][NextStore]_vars

\* calculateSavings on its own: every pair of sizes up to MaxCalcSize, and the
\* sizes 1000 and 300.
CalcSizes == (0..MaxCalcSize) \cup {300, 1000}

InitCalc ==
  /\ convertedImages = <<>>
  /\ isConverting = FALSE
  /\ isZipping = FALSE
  /\ submitted = 0
  /\ imageFiles = <<>>
  /\ taskPc = <<>>
  /\ values = <<>>
  /\ revoked = <<>>
  /\ batchPc = <<>>
  /\ lastResolved = <<>>
  /\ lastRemove = NoRemove
  /\ zipPc = "idle"
  /\ zipFiles = EmptyZip
  /\ zipImages = <<>>
  /\ zipOutcome = "none"
  /\ zipUrl = "none"
  /\ zipPromise = "none"
  /\ lastDownload = NoDownload
  /\ nameArg = <<>>
  /\ nameResult = NoNames
  /\ calcArgs \in CalcSizes \X CalcSizes
  /\ calcResult = NoResult

NextCalc == RenderSavings

SpecCalc == InitCalc /\ [][NextCalc]_vars

\* The exports on their own: downloads of single results and of the archive,
\* of a list that conversions have filled.
NextExport ==
  \/ ClickDownload
  \/ handleDownloadAll
  \/ GenerateFulfilled
  \/ GenerateFulfilledThrows
  \/ GenerateRejected

SpecExport == InitStore /\ [][NextExport]_vars

\* The name derivation on its own: every file name of up to MaxNameLen
\* characters out of a letter, the dot and the slash.
NameChars == {"a", ".", "/"}

Names == UNION {[1..n -> NameChars] : n \in 0..MaxNameLen}

InitName ==
  /\ convertedImages = <<>>
  /\ isConverting = FALSE
  /\ isZipping = FALSE
  /\ submitted = 0
  /\ imageFiles = <<>>
  /\ taskPc = <<>>
  /\ values = <<>>
  /\ revoked = <<>>
  /\ batchPc = <<>>
  /\ lastResolved = <<>>
  /\ lastRemove = NoRemove
  /\ zipPc = "idle"
  /\ zipFiles = EmptyZip
  /\ zipImages = <<>>
  /\ zipOutcome = "none"
  /\ zipUrl = "none"
  /\ zipPromise = "none"
  /\ lastDownload = NoDownload
  /\ nameArg \in Names
  /\ nameResult = NoNames
  /\ calcArgs = <<0, 0>>
  /\ calcResult = NoResult

\* A file called nameArg is converted (lines 49-54); the names handleDownload
\* (line 96) and handleDownloadAll (line 111) give its result.
DeriveNames ==
  /\ ~nameResult.derived
  /\ LET image == ConvertedImage([name |-> nameArg, type |-> "image/png", size |-> 2],
                                 Blob(1, 1, 1))
     IN  nameResult' = [derived |-> TRUE,
                        originalName |-> image.originalName,
                        download |-> DownloadName(image),
                        entry |-> WebpName(image)]
  /\ UNCHANGED <<convertedImages, isConverting, isZipping, convVars, lastRemove,
                 zipVars, calcVars, lastDownload, nameArg>>

NextName == DeriveNames

SpecName == InitName /\ [][NextName]_vars

\* The filter on its own: files of every accepted type, of two types that are
\* not accepted and of no declared type, converted without failures.
FileG == [name |-> <<"g", ".", "g">>, type |-> "image/gif", size |-> 2]
FileT == [name |-> <<"t", ".", "t">>, type |-> "image/tiff", size |-> 2]
FileM == [name |-> <<"m", ".", "m">>, type |-> "image/bmp", size |-> 2]
FileW == [name |-> <<"w", ".", "w">>, type |-> "image/webp", size |-> 2]
FileN == [name |-> <<"n">>, type |-> "", size |-> 2]

FilterFiles == {FileA, FileB, FileG, FileT, FileM, FileP, FileW, FileN}

FilterLists == UNION {[1..n -> FilterFiles] : n \in 1..MaxFiles}

NextFilter ==
  \/ \E files \in FilterLists : processFiles(files)
  \/ \E t \in Tasks : ImgOnload(t[1], t[2])
  \/ \E t \in Tasks : ToBlobCallback(t[1], t[2], 1)

SpecFilter == Init /\ [][NextFilter]_vars

\* Overlapping batches on their own: a processFiles call for the two images is
\* waiting for its conversions (none has finished) when further calls are made;
\* submitted counts the files of those.  No conversion fails; results are
\* removed at any time.
InitOverlap ==
  /\ convertedImages = <<>>
  /\ isConverting = TRUE
  /\ isZipping = FALSE
  /\ submitted = 0
  /\ imageFiles = <<<<FileA, FileB>>>>
  /\ taskPc = <<<<"loading", "loading">>>>
  /\ values = <<<<Pending, Pending>>>>
  /\ revoked = <<<<0, 0>>>>
  /\ batchPc = <<"await">>
  /\ lastResolved = <<0>>
  /\ lastRemove = NoRemove
  /\ zipPc = "idle"
  /\ zipFiles = EmptyZip
  /\ zipImages = <<>>
  /\ zipOutcome = "none"
  /\ zipUrl = "none"
  /\ zipPromise = "none"
  /\ lastDownload = NoDownload
  /\ nameArg = <<>>
  /\ nameResult = NoNames
  /\ calcArgs = <<0, 0>>
  /\ calcResult = NoResult

NextOverlap ==
  \/ \E files \in FileLists : processFiles(files)
  \/ \E t \in Tasks : ImgOnload(t[1], t[2])
  \/ \E t \in Tasks : ToBlobCallback(t[1], t[2], 1)
  \/ \E index \in RemoveIndices : handleRemove(index) /\ UNCHANGED lastRemove

SpecOverlap == InitOverlap /\ [][NextOverlap]_vars

\* ----------------------------------------------------------------- claims

\* Call b of processFiles has run to its end.
DoneIn(pcs, b) == b <= Len(pcs) /\ pcs[b] = "done"

\* This step takes call b of processFiles to its end (and so appends its batch).
NewlyDone(b) == ~DoneIn(batchPc, b) /\ DoneIn(batchPc', b)

\* The files of call b whose promise resolved.
Succeeded(pcs, b) == {i \in 1..Len(pcs[b]) : pcs[b][i] = "resolved"}

\* The files of call b that failed to decode or to encode.
Failed(b) == {i \in 1..Len(taskPc[b]) : taskPc[b][i] \in {"loadError", "noBlob"}}

\* The part of the list a step appended.
Appended == SubSeq(convertedImages', Len(convertedImages) + 1, Len(convertedImages'))

\* The results the finished calls appended, whether still listed or not.
AppendedSoFar ==
  {t \in Tasks : DoneIn(batchPc, t[1]) /\ taskPc[t[1]][t[2]] = "resolved"}

\* C1: a batch with a file that failed to decode or to encode is never left
\* outstanding for good: its processFiles call has run to its end (the results
\* of the other files appended, isConverting cleared by it), or an event of one
\* of its conversions is still to come.  A processFiles call continues only in
\* the step of such an event, so a batch for which this fails never settles.
C1_FailedFileBatchNotStuck ==
  \A b \in 1..Len(batchPc) :
    Failed(b) # {} =>
      \/ DoneIn(batchPc, b)
      \/ \E i \in 1..Len(taskPc[b]) : ENABLED TaskStep(b, i)

\* C1 as a liveness property, for FairSpec: a batch with a failed file leads
\* to its processFiles call having ended with isConverting cleared.
C1_FailedFileBatchSettles ==
  \A b \in 1..MaxFiles :
    (b <= Len(batchPc) /\ Failed(b) # {}) ~> (DoneIn(batchPc, b) /\ ~isConverting)

\* C2: the step that appends a batch lengthens the list by the number of the
\* batch's files that decoded and encoded (same names included), and no file
\* that failed is ever listed.
C2_BatchCount ==
  /\ [][\A b \in 1..MaxFiles :
          NewlyDone(b) =>
            Len(convertedImages') =
              Len(convertedImages) + Cardinality(Succeeded(taskPc', b))]_vars
  /\ [](\A k \in 1..Len(convertedImages) :
          LET t == convertedImages[k].webpBlob.id
          IN  t \in Tasks /\ taskPc[t[1]][t[2]] = "resolved")

\* C2 witness: a batch of two files with the same stripped name was appended
\* and both results are listed.
C2_Witness ==
  \E b \in 1..Len(batchPc) :
    /\ batchPc[b] = "done"
    /\ Len(imageFiles[b]) = 2
    /\ Len(convertedImages) = 2
    /\ convertedImages[1].originalName = convertedImages[2].originalName
    /\ convertedImages[1].webpBlob.id = <<b, 1>>
    /\ convertedImages[2].webpBlob.id = <<b, 2>>

\* C3: the slice a batch appends lists the results in the order of the
\* filtered input files, whatever the order the conversions completed in.
C3_SubmissionOrder ==
  [][\A b \in 1..MaxFiles :
       NewlyDone(b) =>
         /\ Len(Appended) = Len(imageFiles'[b])
         /\ \A i \in 1..Len(Appended) :
              /\ Appended[i].webpBlob.id = <<b, i>>
              /\ Appended[i].originalName = StripExtension(imageFiles'[b][i].name)
              /\ Appended[i].originalSize = imageFiles'[b][i].size]_vars

\* C3 witness: a batch was appended whose first file completed last, and its
\* results are listed first file first.
C3_Witness ==
  \E b \in 1..Len(batchPc) :
    /\ batchPc[b] = "done"
    /\ Len(imageFiles[b]) >= 2
    /\ lastResolved[b] = 1
    /\ \E k \in 1..(Len(convertedImages) - 1) :
         /\ convertedImages[k].webpBlob.id = <<b, 1>>
         /\ convertedImages[k + 1].webpBlob.id = <<b, 2>>

\* C4: while a conversion of any batch is still running, isConverting is true.
C4_ConvertingWhileOutstanding ==
  (\E t \in Tasks : taskPc[t[1]][t[2]] \in {"loading", "decoded"}) => isConverting

\* C5: the object URL of a conversion is revoked exactly once on every exit
\* path: no conversion that has ended, by a result, by a null blob or by a
\* decode error, still holds its URL, and none revokes twice.
C5_UrlReleasedOnEveryExit ==
  \A t \in Tasks :
    /\ revoked[t[1]][t[2]] <= 1
    /\ taskPc[t[1]][t[2]] \in {"resolved", "noBlob", "loadError"}
         => revoked[t[1]][t[2]] = 1

\* new is old without the entry at 0-based index: one shorter, the entries
\* before the index in place, those after it moved up by one.
RemovedExactly(old, new, index) ==
  /\ Len(new) = Len(old) - 1
  /\ \A j \in 1..Len(new) : new[j] = IF j <= index THEN old[j] ELSE old[j + 1]
  /\ \A j \in 1..Len(new) : new[j].webpBlob.id # old[index + 1].webpBlob.id

\* C6: handleRemove(i) with i within the bounds of the list removes exactly
\* the entry at i and keeps the others in order.
C6_RemoveInBounds ==
  [][\A index \in RemoveIndices :
       (handleRemove(index) /\ 0 <= index /\ index < Len(convertedImages))
         => RemovedExactly(convertedImages, convertedImages', index)]_vars

\* C6 witness: the middle entry of a list of three was removed.
C6_Witness ==
  /\ lastRemove.called
  /\ lastRemove.index = 1
  /\ lastRemove.length = 3
  /\ Len(convertedImages) = 2

\* C7: handleRemove(i) with i outside the bounds of the list leaves the list
\* as it is.
C7_RemoveOutOfBounds ==
  [][\A index \in RemoveIndices :
       (handleRemove(index) /\ (index < 0 \/ index >= Len(convertedImages)))
         => convertedImages' = convertedImages]_vars

\* C7 witness: the last index was removed and then removed again; the second
\* call found the list one shorter and left it alone.
C7_Witness ==
  /\ lastRemove.called
  /\ lastRemove.prevIndex = lastRemove.index
  /\ lastRemove.prevLength = lastRemove.index + 1
  /\ lastRemove.length = lastRemove.index
  /\ lastRemove.length >= 1
  /\ Len(convertedImages) = lastRemove.length

\* The sum of f over the positions in S, in no particular order.
RECURSIVE SumOver(_, _)
SumOver(S, images) ==
  IF S = {} THEN 0
  ELSE LET k == CHOOSE j \in S : TRUE
       IN  (images[k].originalSize - images[k].convertedSize)
             + SumOver(S \ {k}, images)

\* C8: totalSavings is the exact sum of originalSize - convertedSize over the
\* entries listed, negative sums included, and 0 for the empty list.
C8_TotalSavingsExact ==
  /\ totalSavings = SumOver(1..Len(convertedImages), convertedImages)
  /\ convertedImages = <<>> => totalSavings = 0

\* C8 witness: after an append and a removal the listed entries sum to less
\* than 0, and so does totalSavings.
C8_Witness ==
  /\ Len(convertedImages) >= 1
  /\ Len(convertedImages) < Cardinality(AppendedSoFar)
  /\ totalSavings < 0

\* C9: for original = 0, calculateSavings gives a sentinel and not what a
\* division by zero gives; for original = 1000 and converted = 300 it gives
\* "70.0%".
C9_DivisionGuarded ==
  calcResult # NoResult =>
    /\ calcArgs[1] = 0 => calcResult \notin {"NaN%", "Infinity%", "-Infinity%"}
    /\ calcArgs = <<1000, 300>> => calcResult = "70.0%"

\* The entry names of the results in images.
WebpNames(images) == {WebpName(images[k]) : k \in 1..Len(images)}

\* The position of the last result in images with the entry name.
LastNamed(images, name) ==
  CHOOSE k \in 1..Len(images) :
    /\ WebpName(images[k]) = name
    /\ \A j \in 1..Len(images) : WebpName(images[j]) = name => j <= k

\* C10, as claimed: the archive of N results holds N entries, each as long as
\* the convertedSize of its result, also when results share an originalName.
C10_ArchiveHasNEntries ==
  zipPc = "generating" =>
    /\ Cardinality(DOMAIN zipFiles) = Len(zipImages)
    /\ \A k \in 1..Len(zipImages) :
         zipFiles[WebpName(zipImages[k])].size = zipImages[k].convertedSize

\* C10, amended: the archive holds one entry per distinct originalName (N
\* entries when the names are pairwise distinct); the entry of a name is the
\* blob of the last result with that name, as long as that result's
\* convertedSize.
C10_ArchiveOneEntryPerName ==
  zipPc = "generating" =>
    /\ Len(zipImages) >= 1
    /\ DOMAIN zipFiles = WebpNames(zipImages)
    /\ Cardinality(WebpNames(zipImages)) = Len(zipImages)
         => Cardinality(DOMAIN zipFiles) = Len(zipImages)
    /\ \A name \in DOMAIN zipFiles :
         LET image == zipImages[LastNamed(zipImages, name)]
         IN  /\ zipFiles[name] = image.webpBlob
             /\ zipFiles[name].size = image.convertedSize

\* C10 witness: an archive is being generated from three results, two of which
\* share an originalName and differ in size; it holds two entries.
C10_Witness ==
  /\ zipPc = "generating"
  /\ Len(zipImages) = 3
  /\ Cardinality(DOMAIN zipFiles) = 2
  /\ \E j, k \in 1..Len(zipImages) :
       /\ j < k
       /\ zipImages[j].originalName = zipImages[k].originalName
       /\ zipImages[j].convertedSize # zipImages[k].convertedSize

\* C11: the step in which generateAsync rejects leaves the result list as it
\* was when handleDownloadAll started, creates no object URL and triggers no
\* download, and clears isZipping, so that handleDownloadAll can run again.
C11_ArchiveFailureRecoverable ==
  [][GenerateRejected =>
       /\ convertedImages' = convertedImages
       /\ convertedImages' = zipImages
       /\ zipUrl' = "none"
       /\ zipOutcome' = "failed"
       /\ ~isZipping'
       /\ zipPc' = "idle"]_vars

\* C11 witness: after a failed archive generation a later handleDownloadAll
\* has started, from the list the failed one started from.
C11_Witness ==
  /\ zipOutcome = "failed"
  /\ zipPc = "generating"
  /\ isZipping
  /\ zipImages = convertedImages

\* C12: a handleDownloadAll call whose archive generation failed ends with an
\* error its caller sees: the promise it returned is rejected.
C12_ArchiveFailureReported ==
  zipOutcome = "failed" => zipPromise = "rejected"

\* C13: no finished export leaves the object URL it created unreleased: not
\* the latest handleDownload call, and not the latest handleDownloadAll call
\* once it has run to its end.
C13_ExportUrlReleased ==
  /\ lastDownload.url # "live"
  /\ zipPc = "idle" => zipUrl # "live"

\* The files of a list that the claim says are dispatched, in order.
DispatchedOf(files) ==
  SelectSeq(files, LAMBDA f : f.type \in {"image/jpeg", "image/png", "image/gif",
                                          "image/tiff", "image/bmp"})

\* C14: a processFiles call starts one conversion for each file of its list
\* whose type is one of the five, in order, and none for any other file; the
\* files of a call stay what they are, so the batch that settles appends one
\* result per file of the five types and nothing else; no task and no result
\* exists for a file of another type.
C14_MimeFiltering ==
  /\ [][/\ \A files \in FilterLists :
             processFiles(files) =>
               /\ Len(imageFiles') = Len(imageFiles) + 1
               /\ imageFiles'[Len(imageFiles')] = DispatchedOf(files)
               /\ Len(taskPc'[Len(imageFiles')]) = Len(DispatchedOf(files))
        /\ \A b \in 1..Len(imageFiles) : imageFiles'[b] = imageFiles[b]
        /\ \A b \in 1..MaxFiles :
             NewlyDone(b) =>
               /\ Len(Appended) = Len(imageFiles'[b])
               /\ \A i \in 1..Len(Appended) :
                    Appended[i].webpBlob.id = <<b, i>>]_vars
  /\ [](\A t \in Tasks :
          /\ DispatchedOf(<<imageFiles[t[1]][t[2]]>>) # <<>>
          /\ taskPc[t[1]][t[2]] \in {"loading", "decoded", "resolved"})
  /\ [](\A k \in 1..Len(convertedImages) :
          convertedImages[k].originalName
            \notin {StripExtension(f.name) : f \in {FileP, FileW, FileN}})

\* C14 witness: a call was given two files, one of them not of the five types;
\* it started one conversion and has appended its result.
C14_Witness ==
  /\ Len(imageFiles) = 1
  /\ submitted = 2
  /\ Len(imageFiles[1]) = 1
  /\ batchPc[1] = "done"
  /\ Len(convertedImages) = 1
  /\ convertedImages[1].webpBlob.id = <<1, 1>>

\* C15: every handleDownload call clicks one anchor of its own, named after
\* the result and holding the result's blob, and leaves the result list and
\* the two flags as they were; so after any number of calls there were as many
\* clicks as calls.
C15_DownloadLeavesStore ==
  /\ [][ClickDownload =>
          /\ lastDownload'.calls = lastDownload.calls + 1
          /\ lastDownload'.clicks = lastDownload.clicks + 1
          /\ \E k \in 1..Len(convertedImages) :
               /\ lastDownload'.blob = convertedImages[k].webpBlob.id
               /\ lastDownload'.name =
                    convertedImages[k].originalName \o <<".", "w", "e", "b", "p">>
          /\ convertedImages' = convertedImages
          /\ isConverting' = isConverting
          /\ isZipping' = isZipping]_vars
  /\ [](lastDownload.clicks = lastDownload.calls)

\* C15 witness: handleDownload has run twice in a row for the same result of a
\* list of three.
C15_Witness ==
  /\ lastDownload.calls >= 2
  /\ lastDownload.clicks = lastDownload.calls
  /\ lastDownload.blob = lastDownload.prevBlob
  /\ ~lastDownload.threw
  /\ Len(convertedImages) = 3

\* The blobs an archive holds.
ArchiveBlobs(files) == {files[n] : n \in DOMAIN files}

\* C16, as claimed: the entries of the archive being generated are exactly the
\* results listed when handleDownloadAll started.
C16_ArchiveIsResultSetAtStart ==
  zipPc = "generating" =>
    ArchiveBlobs(zipFiles) = {zipImages[k].webpBlob : k \in 1..Len(zipImages)}

\* C16, amended: the step that starts handleDownloadAll writes the archive from
\* the list as it is then, one entry per distinct originalName holding the
\* blob of the last result so named; while the archive is being generated no
\* step changes it, a removal or an append included, and the generation can
\* end in the download.
C16_ArchiveSnapshot ==
  /\ [][(zipPc = "idle" /\ zipPc' = "generating") =>
          /\ DOMAIN zipFiles' = WebpNames(convertedImages)
          /\ \A name \in DOMAIN zipFiles' :
               zipFiles'[name] =
                 convertedImages[LastNamed(convertedImages, name)].webpBlob]_vars
  /\ [][(zipPc = "generating" /\ zipPc' = "generating") =>
          zipFiles' = zipFiles]_vars
  /\ [](zipPc = "generating" =>
          /\ zipFiles # EmptyZip
          /\ ENABLED GenerateFulfilled)

\* C16 witness: while an archive of one result is being generated that result
\* was removed and a batch appended another; the archive holds the removed one.
C16_Witness ==
  /\ zipPc = "generating"
  /\ Len(zipImages) = 1
  /\ Len(convertedImages) = 1
  /\ zipImages[1].webpBlob.id # convertedImages[1].webpBlob.id
  /\ ArchiveBlobs(zipFiles) = {zipImages[1].webpBlob}

\* The processFiles call a listed result came from.
BatchOf(image) == image.webpBlob.id[1]

\* This step appends the whole batch of call b, in file order, at the end.
AppendsBlock(b) ==
  /\ Len(convertedImages') = Len(convertedImages) + Len(imageFiles'[b])
  /\ SubSeq(convertedImages', 1, Len(convertedImages)) = convertedImages
  /\ \A i \in 1..Len(Appended) : Appended[i].webpBlob.id = <<b, i>>

\* C17: the step in which a batch settles appends all its results as one block
\* at the end of the list as it is then, whichever call started first; the
\* results of a batch are never apart: between two of them only results of the
\* same batch are listed.
C17_BatchesAppendAsBlocks ==
  /\ [][\A b \in 1..Len(batchPc') : NewlyDone(b) => AppendsBlock(b)]_vars
  /\ [](\A j, k \in 1..Len(convertedImages) :
          (j < k /\ BatchOf(convertedImages[j]) = BatchOf(convertedImages[k]))
            => \A m \in j..k :
                 BatchOf(convertedImages[m]) = BatchOf(convertedImages[j]))

\* C17 witness: two calls of two files each overlapped; the second settled
\* first and its block is listed before the block of the first.
C17_Witness ==
  /\ Len(convertedImages) = 4
  /\ convertedImages[1].webpBlob.id = <<2, 1>>
  /\ convertedImages[2].webpBlob.id = <<2, 2>>
  /\ convertedImages[3].webpBlob.id = <<1, 1>>
  /\ convertedImages[4].webpBlob.id = <<1, 2>>

\* The results listed, by the conversion they came from.
Listed(images) == {images[k].webpBlob.id : k \in 1..Len(images)}

\* C18: every step that changes the list either appends a settling batch to
\* the list as it is then, every entry of it kept in place, or removes exactly
\* one entry of the list as it is then; a result that was appended and is no
\* longer listed is never listed again, and no result is listed twice.
C18_NoLostUpdates ==
  /\ [][convertedImages' # convertedImages =>
          \/ \E b \in 1..Len(batchPc') : NewlyDone(b) /\ AppendsBlock(b)
          \/ /\ \A b \in 1..Len(batchPc') : ~NewlyDone(b)
             /\ \E index \in 0..(Len(convertedImages) - 1) :
                  RemovedExactly(convertedImages, convertedImages', index)]_vars
  /\ [][\A t \in AppendedSoFar :
          t \notin Listed(convertedImages) => t \notin Listed(convertedImages')]_vars
  /\ [](/\ Listed(convertedImages) \subseteq AppendedSoFar
        /\ Cardinality(Listed(convertedImages)) = Len(convertedImages))

\* C18 witness: three results were appended by two overlapping calls; the
\* result of the call that settled first and one of the other call's two were
\* removed, and the remaining one is listed.
C18_Witness ==
  /\ Len(batchPc) = 2
  /\ batchPc[1] = "done"
  /\ batchPc[2] = "done"
  /\ Len(imageFiles[2]) = 1
  /\ Cardinality(AppendedSoFar) = 3
  /\ Len(convertedImages) = 1
  /\ convertedImages[1].webpBlob.id = <<1, 2>>

\* The position of the last dot of a name, 0 for a name without one.
LastDot(name) ==
  LET dots == {p \in 1..Len(name) : name[p] = "."}
  IN  IF dots = {} THEN 0 ELSE CHOOSE q \in dots : \A r \in dots : r <= q

\* Both export names are originalName followed by ".webp".
ExportNamesAgree ==
  /\ nameResult.download = nameResult.originalName \o <<".", "w", "e", "b", "p">>
  /\ nameResult.entry = nameResult.download

\* C19, as claimed: originalName is the file name up to its last dot, the
\* whole name when it has no dot; both export names are originalName plus
\* ".webp".
C19_LastDotStripped ==
  nameResult.derived =>
    /\ nameResult.originalName =
         IF LastDot(nameArg) = 0 THEN nameArg
         ELSE SubSeq(nameArg, 1, LastDot(nameArg) - 1)
    /\ ExportNamesAgree

\* C19, amended: originalName is the file name up to its last dot when that
\* dot is followed by one or more characters, none of them a slash; otherwise
\* (no dot, a dot at the end, a slash after the last dot) it is the whole name;
\* both export names are originalName plus ".webp".
C19_ExtensionStripped ==
  nameResult.derived =>
    LET last == LastDot(nameArg)
        extension == SubSeq(nameArg, last + 1, Len(nameArg))
        stripped == /\ last # 0
                    /\ extension # <<>>
                    /\ \A k \in 1..Len(extension) : extension[k] # "/"
    IN  /\ nameResult.originalName =
             IF stripped THEN SubSeq(nameArg, 1, last - 1) ELSE nameArg
        /\ ExportNamesAgree

\* C19 witness: the names of a file with two dots were derived; only the part
\* from the last dot on is gone.
C19_Witness ==
  /\ nameResult.derived
  /\ nameArg = <<"a", ".", "a", ".", "a">>
  /\ nameResult.originalName = <<"a", ".", "a">>
  /\ nameResult.entry = <<"a", ".", "a", ".", "w", "e", "b", "p">>

====
